---------------------------- MODULE Spec2Model ----------------------------
(***************************************************************************)
(* Model of eval/data_time/count.py: sum_second_column(file_path) and the  *)
(* module-level script that calls it and prints the total.                 *)
(*                                                                         *)
(* A file on disk is a kind (missing, regular, denied, directory) and, for *)
(* a regular file, the sequence of rows csv.reader yields.  A row is the   *)
(* sequence of its fields.  Floats are kept in tenths; every numeric cell  *)
(* of the model is a multiple of 0.5, so every sum is exact in binary      *)
(* floating point and integer arithmetic on tenths is what Python computes.*)
(* A printed line is the sequence of the text fragments the f-string joins.*)
(***************************************************************************)
EXTENDS Integers, Sequences, FiniteSets

VARIABLES
    path,    \* sys.argv[1]
    kind,    \* what the path names on disk
    rows,    \* the rows csv.reader yields for the file
    pc,      \* start, open, loop, ret, print, done, crashed
    idx,     \* position of the reader: the row the loop is at (0: not opened)
    total,   \* the accumulator
    result,  \* <<>> until sum_second_column returns, then <<its value>>
    handle,  \* none, open, closed
    exc,     \* the exception that ended the process, or none
    out,     \* standard output, a sequence of lines
    run,     \* 1 for the first run of the script, 2 for the second
    prev     \* what the first run left: its output and how it ended

vars == <<path, kind, rows, pc, idx, total, result, handle, exc, out, run, prev>>

\* ------------------------------------------------------------- bounds

\* Longest file, in rows.
MaxRows == 3

\* ---------------------------------------------------------- constants

\* The index of row[8].
TargetIndex == 8

\* ------------------------------------------------------------- inputs

Paths == {"data.csv", "/nonexistent/file.csv"}

Kinds == {"missing", "regular", "denied", "directory"}

Filler == <<"a", "b", "c", "d", "e", "f", "g", "h">>

\* The texts found at index 8.
Cells == {"10.5", "4.5", "-3", " 7 ", "notanumber", ""}

\* Rows of 0, 1, 2, 8, 9 and 10 fields.
RowSet ==
    {<<>>, <<"onlyone">>, <<"a", "b">>, Filler}
        \cup {Filler \o <<c>> : c \in Cells}
        \cup {Filler \o <<"4.5", "z">>}

Files == UNION {[1..n -> RowSet] : n \in 0..MaxRows}

\* ------------------------------------------------------ pure functions

\* float(s): the value in tenths, or ValueError.  Surrounding whitespace is
\* stripped; the empty string and words are not numbers.
ParseFloat(s) ==
    CASE s = "10.5" -> [ok |-> TRUE, tenths |-> 105]
      [] s = "4.5"  -> [ok |-> TRUE, tenths |-> 45]
      [] s = "-3"   -> [ok |-> TRUE, tenths |-> -30]
      [] s = " 7 "  -> [ok |-> TRUE, tenths |-> 70]
      [] OTHER      -> [ok |-> FALSE, tenths |-> 0]

\* float(row[8]): IndexError when the row has no index 8, else float's
\* outcome on the field.
EvalCell(row) ==
    IF Len(row) <= TargetIndex
    THEN [exc |-> "IndexError", tenths |-> 0]
    ELSE IF ParseFloat(row[TargetIndex + 1]).ok
         THEN [exc |-> "none", tenths |-> ParseFloat(row[TargetIndex + 1]).tenths]
         ELSE [exc |-> "ValueError", tenths |-> 0]

\* total = 0: a Python int.
IntZero == [isfloat |-> FALSE, tenths |-> 0]

Add_Assign(t, f) == [isfloat |-> TRUE, tenths |-> f]

\* total += f: the result is a float.
Add(t, f) == [isfloat |-> TRUE, tenths |-> t.tenths + f]

Digit(d) == <<"0", "1", "2", "3", "4", "5", "6", "7", "8", "9">>[d + 1]

RECURSIVE NatStr(_)
NatStr(n) == IF n < 10 THEN <<Digit(n)>> ELSE NatStr(n \div 10) \o <<Digit(n % 10)>>

Abs(v) == IF v < 0 THEN -v ELSE v

\* str(total) inside the f-string: "0" for the int, the shortest repr for a
\* float ("15.0", "-3.0").
Str(t) ==
    IF ~t.isfloat
    THEN (IF t.tenths < 0 THEN <<"-">> ELSE <<>>) \o NatStr(Abs(t.tenths) \div 10)
    ELSE (IF t.tenths < 0 THEN <<"-">> ELSE <<>>)
             \o NatStr(Abs(t.tenths) \div 10) \o <<".">> \o <<Digit(Abs(t.tenths) % 10)>>

SkipLine(raw) == <<"Skipping invalid value: ", raw>>

NotFoundLine(p) == <<"File not found: ", p>>

SumLine(t) == <<"The sum of the second column is: ">> \o Str(t)

\* open(file_path, mode='r'): the exception raised, if any.
OpenExc(k) ==
    CASE k = "missing"   -> "FileNotFoundError"
      [] k = "denied"    -> "PermissionError"
      [] k = "directory" -> "IsADirectoryError"
      [] OTHER           -> "none"

\* except ValueError, around the row's conversion.
InnerCatches(e) == e = "ValueError"

OuterCatches_None(e) == FALSE

OuterCatches_Any(e) == e # "none"

\* except FileNotFoundError, around the with statement.
OuterCatches(e) == e = "FileNotFoundError"

WithExit_Leak(h) == h

\* Leaving the with block, by its end or by an exception, closes the file.
WithExit(h) == "closed"

\* --------------------------------------------------------------- state

NoRun == [out |-> <<>>, pc |-> "none", exc |-> "none"]

Init ==
    /\ path \in Paths
    /\ kind \in Kinds
    /\ rows \in (IF kind = "regular" THEN Files ELSE {<<>>})
    /\ pc = "start"
    /\ idx = 0
    /\ total = IntZero
    /\ result = <<>>
    /\ handle = "none"
    /\ exc = "none"
    /\ out = <<>>
    /\ run = 1
    /\ prev = NoRun

AtRow == pc = "loop" /\ idx <= Len(rows)

HasEnoughFields_Off(row) == Len(row) > 0

\* if len(row) > 1
HasEnoughFields(row) == Len(row) > 1

\* ------------------------------------------------------------- actions

Call_KeepTotal ==
    /\ pc = "start"
    /\ pc' = "open"
    /\ UNCHANGED <<path, kind, rows, idx, total, result, handle, exc, out, run, prev>>

\* result = sum_second_column(file_path) is entered: total = 0.
Call ==
    /\ pc = "start"
    /\ pc' = "open"
    /\ total' = IntZero
    /\ UNCHANGED <<path, kind, rows, idx, result, handle, exc, out, run, prev>>

\* with open(file_path, mode='r') as file: reader = csv.reader(file)
OpenOk ==
    /\ pc = "open"
    /\ OpenExc(kind) = "none"
    /\ handle' = "open"
    /\ idx' = 1
    /\ pc' = "loop"
    /\ UNCHANGED <<path, kind, rows, total, result, exc, out, run, prev>>

\* open raises: no handle was acquired.  The outer handler prints and falls
\* through to the return, or the exception leaves the script.
OpenRaise ==
    /\ pc = "open"
    /\ OpenExc(kind) # "none"
    /\ IF OuterCatches(OpenExc(kind))
       THEN /\ out' = Append(out, NotFoundLine(path))
            /\ pc' = "ret"
            /\ exc' = exc
       ELSE /\ out' = out
            /\ pc' = "crashed"
            /\ exc' = OpenExc(kind)
    /\ UNCHANGED <<path, kind, rows, idx, total, result, handle, run, prev>>

\* A row the guard rejects: the loop moves on.
RowSkip ==
    /\ AtRow
    /\ ~HasEnoughFields(rows[idx])
    /\ idx' = idx + 1
    /\ UNCHANGED <<path, kind, rows, pc, total, result, handle, exc, out, run, prev>>

\* total += float(row[8])
RowAdd ==
    /\ AtRow
    /\ HasEnoughFields(rows[idx])
    /\ EvalCell(rows[idx]).exc = "none"
    /\ total' = Add(total, EvalCell(rows[idx]).tenths)
    /\ idx' = idx + 1
    /\ UNCHANGED <<path, kind, rows, pc, result, handle, exc, out, run, prev>>

\* The conversion raises what the inner handler catches: it prints row[8].
RowInvalid ==
    /\ AtRow
    /\ HasEnoughFields(rows[idx])
    /\ EvalCell(rows[idx]).exc # "none"
    /\ InnerCatches(EvalCell(rows[idx]).exc)
    /\ out' = Append(out, SkipLine(rows[idx][TargetIndex + 1]))
    /\ idx' = idx + 1
    /\ UNCHANGED <<path, kind, rows, pc, total, result, handle, exc, run, prev>>

\* The row raises what the inner handler does not catch: the with block is
\* left (the file is closed) and the outer handler is tried.
RowRaise ==
    /\ AtRow
    /\ HasEnoughFields(rows[idx])
    /\ EvalCell(rows[idx]).exc # "none"
    /\ ~InnerCatches(EvalCell(rows[idx]).exc)
    /\ handle' = WithExit(handle)
    /\ IF OuterCatches(EvalCell(rows[idx]).exc)
       THEN /\ out' = Append(out, NotFoundLine(path))
            /\ pc' = "ret"
            /\ exc' = exc
       ELSE /\ out' = out
            /\ pc' = "crashed"
            /\ exc' = EvalCell(rows[idx]).exc
    /\ UNCHANGED <<path, kind, rows, idx, total, result, run, prev>>

\* The reader is exhausted: the with block ends.
LoopEnd ==
    /\ pc = "loop"
    /\ idx > Len(rows)
    /\ handle' = WithExit(handle)
    /\ pc' = "ret"
    /\ UNCHANGED <<path, kind, rows, idx, total, result, exc, out, run, prev>>

\* return total
Return ==
    /\ pc = "ret"
    /\ result' = <<total>>
    /\ pc' = "print"
    /\ UNCHANGED <<path, kind, rows, idx, total, handle, exc, out, run, prev>>

\* print(f"The sum of the second column is: {result}")
PrintTotal ==
    /\ pc = "print"
    /\ out' = Append(out, SumLine(result[1]))
    /\ pc' = "done"
    /\ UNCHANGED <<path, kind, rows, idx, total, result, handle, exc, run, prev>>

Terminated == pc \in {"done", "crashed"}

\* The script is run a second time on the same path and the same file, in a
\* new process: nothing of the first is kept but what the model remembers
\* in prev.  The accumulator's slot holds whatever was left there.
Rerun ==
    /\ Terminated
    /\ run = 1
    /\ run' = 2
    /\ prev' = [out |-> out, pc |-> pc, exc |-> exc]
    /\ pc' = "start"
    /\ idx' = 0
    /\ result' = <<>>
    /\ handle' = "none"
    /\ exc' = "none"
    /\ out' = <<>>
    /\ UNCHANGED <<path, kind, rows, total>>

Next ==
    \/ Call
    \/ OpenOk
    \/ OpenRaise
    \/ RowSkip
    \/ RowAdd
    \/ RowInvalid
    \/ RowRaise
    \/ LoopEnd
    \/ Return
    \/ PrintTotal
    \/ Rerun

Spec == Init /\ [][Next]_vars

\* -------------------------------------------------------------- claims

IsSumLine(l) == l[1] = "The sum of the second column is: "

IsSkipLine(l) == l[1] = "Skipping invalid value: "

\* What one row should add: its index-8 value when the row has more than one
\* field, has an index 8 and the field is a number; nothing otherwise.
Contribution(row) ==
    IF Len(row) > 1 /\ Len(row) > TargetIndex /\ ParseFloat(row[TargetIndex + 1]).ok
    THEN ParseFloat(row[TargetIndex + 1]).tenths
    ELSE 0

RECURSIVE SumOver(_)
SumOver(rs) == IF rs = <<>> THEN 0 ELSE Contribution(Head(rs)) + SumOver(Tail(rs))

ValidRow(row) == Len(row) > TargetIndex /\ ParseFloat(row[TargetIndex + 1]).ok

InvalidRow(row) == Len(row) > TargetIndex /\ ~ParseFloat(row[TargetIndex + 1]).ok

ShortRow(row) == Len(row) <= 1

MidRow(row) == Len(row) > 1 /\ Len(row) <= TargetIndex

Count(seq, P(_)) == Cardinality({i \in DOMAIN seq : P(seq[i])})

\* C1: whatever the path names and whatever rows the file holds, the run never
\* ends abnormally (an uncaught exception), so it goes on to the final print.
C1_NoAbnormalTermination == pc # "crashed"

\* C2: once sum_second_column has returned, the returned total is the sum of
\* the index-8 values of the rows with more than one field whose index-8 field
\* parsed, each counted once, and nothing else.
C2_ReturnedTotalIsSum == result # <<>> => result[1].tenths = SumOver(rows)

C2_Witness ==
    /\ result # <<>>
    /\ Count(rows, ValidRow) >= 2
    /\ \E i \in DOMAIN rows : InvalidRow(rows[i]) \/ ShortRow(rows[i])
    /\ result[1].tenths # 0

\* C3: for a missing file the run never crashes, no handle is acquired, no row
\* is read, the accumulator stays at 0, the only diagnostic is 'File not found:
\* <path>' with the path given, and the run ends having printed the total 0 as
\* its second and last line; until then a step of the run is always possible.
C3_MissingFile ==
    kind = "missing" =>
        /\ pc # "crashed"
        /\ idx = 0
        /\ handle = "none"
        /\ total = IntZero
        /\ pc \in {"start", "open"} => out = <<>>
        /\ pc \in {"ret", "print"} => out = <<NotFoundLine(path)>>
        /\ pc = "done" =>
               out = <<NotFoundLine(path), <<"The sum of the second column is: ", "0">>>>
        /\ pc # "done" => ENABLED (Call \/ OpenRaise \/ Return \/ PrintTotal)

C3_Witness == kind = "missing" /\ pc = "done" /\ Len(out) = 2

RowsDone == idx > Len(rows)

\* C4: when the run has ended, every row with 9 or more fields whose index-8
\* field is not numeric has produced its 'Skipping invalid value: <raw text>'
\* diagnostic exactly once, every row was processed, and the total holds the
\* valid rows, those after an invalid row included.
C4_InvalidRowsReportedRestProcessed ==
    (Terminated /\ kind = "regular") =>
        \A i \in DOMAIN rows :
            InvalidRow(rows[i]) =>
                /\ Cardinality({k \in DOMAIN out : out[k] = SkipLine(rows[i][TargetIndex + 1])})
                       = Cardinality({j \in DOMAIN rows :
                             /\ InvalidRow(rows[j])
                             /\ rows[j][TargetIndex + 1] = rows[i][TargetIndex + 1]})
                /\ RowsDone
                /\ total.tenths = SumOver(rows)

\* The part of C4 that the code keeps: a step taken at an invalid row appends
\* its one diagnostic, leaves the accumulator alone and leaves the loop at the
\* next row.
C4_StepAtInvalidRow ==
    [][(AtRow /\ InvalidRow(rows[idx])) =>
           /\ out' = Append(out, SkipLine(rows[idx][TargetIndex + 1]))
           /\ total' = total
           /\ pc' = "loop"
           /\ idx' = idx + 1]_vars

\* C5: a step taken at a row of zero or one field prints nothing, leaves the
\* accumulator and the file handle alone, and leaves the loop at the next row.
C5_ShortRowSilent ==
    [][(AtRow /\ ShortRow(rows[idx])) =>
           /\ out' = out
           /\ total' = total
           /\ handle' = handle
           /\ pc' = "loop"
           /\ idx' = idx + 1]_vars

C5_Witness ==
    /\ pc = "loop"
    /\ idx > 1
    /\ idx <= Len(rows)
    /\ ShortRow(rows[idx - 1])
    /\ Len(rows[idx - 1]) = 1

\* C6: when the run has ended, the total line was printed exactly once and is
\* the last line of the output.
C6_TotalLineOnceAndLast ==
    Terminated =>
        /\ Count(out, IsSumLine) = 1
        /\ Len(out) > 0
        /\ IsSumLine(out[Len(out)])

\* The part of C6 that the code keeps: a run that reaches its end normally has
\* printed the total line once, as its last line.
C6_WhenDone ==
    pc = "done" =>
        /\ Count(out, IsSumLine) = 1
        /\ IsSumLine(out[Len(out)])

\* C7: a file that exists but cannot be opened is recovered like a missing one:
\* the run does not crash, the failure is logged, and the run ends with the
\* total line showing 0.
C7_UnreadableRecovered ==
    kind \in {"denied", "directory"} =>
        /\ pc # "crashed"
        /\ pc = "done" =>
               /\ Len(out) = 2
               /\ out[2] = <<"The sum of the second column is: ", "0">>

\* C8: once control has left sum_second_column, by its return or by an
\* exception, no file handle is open; on the file-not-found path none was ever
\* acquired.
C8_HandleReleased ==
    /\ pc \in {"ret", "print", "done", "crashed"} => handle # "open"
    /\ (kind = "missing") => handle = "none"

C8_Witness == pc = "crashed" /\ exc = "IndexError" /\ handle = "closed" /\ idx > 1

NoSumLine == \A k \in DOMAIN out : ~IsSumLine(out[k])

\* C10: a step taken at a row of 2 to 8 fields ends the run with an IndexError:
\* it prints nothing, the reader stays at that row, the accumulator is left
\* alone and sum_second_column has not returned; a run ended so has printed no
\* total line, and nothing follows in it (the only step is a new run).
C10_MidRowCrashes ==
    /\ [][(AtRow /\ MidRow(rows[idx])) =>
              /\ pc' = "crashed"
              /\ exc' = "IndexError"
              /\ out' = out
              /\ idx' = idx
              /\ total' = total
              /\ result' = <<>>]_vars
    /\ [][(pc = "crashed") => (pc' = "start" /\ run' = run + 1)]_vars
    /\ [](pc = "crashed" /\ exc = "IndexError" => result = <<>> /\ NoSumLine)

C10_Witness ==
    /\ pc = "crashed"
    /\ exc = "IndexError"
    /\ idx > 1
    /\ idx < Len(rows)
    /\ Len(out) > 0

====
